---- MODULE Spec2Model ----
(***************************************************************************)
(* Model of app/llm_generator.py: decode_attachments,                      *)
(* summarize_attachment_meta, _strip_code_block, generate_readme_fallback  *)
(* and generate_app_code.                                                  *)
(*                                                                         *)
(* A Python str is a sequence of atoms.  Every character or literal the    *)
(* code searches for or compares with is an atom of its own: the backtick, *)
(* the newline, the space, ",", ";", "data:", "text", ".csv", ".md",       *)
(* ".txt", ".json" and every base64 character.  Other atoms stand for a    *)
(* run of characters that neither starts nor ends with whitespace and      *)
(* holds no backtick and no newline.  Positions are Python's, counted from *)
(* 0, in atoms.  A bytes value is a sequence of numbers in 0..255.         *)
(***************************************************************************)
EXTENDS Integers, Sequences, FiniteSets, TLC

VARIABLES pc, attachments, brief, checks, round_num, fs, io, saved,
          summaries, attachments_meta, text, files, usedFallbackDoc, err,
          trace

vars == <<pc, attachments, brief, checks, round_num, fs, io, saved,
          summaries, attachments_meta, text, files, usedFallbackDoc, err,
          trace>>

-----------------------------------------------------------------------------
(* Bounds of the model.                                                    *)

\* longest attachment list drawn
MaxAtt == 2
\* most pieces (delimiter, newline, letter, backtick) a drawn response has
MaxPieces == 6

-----------------------------------------------------------------------------
(* Python's str operations, on sequences of atoms.                         *)

\* the backtick character
BT == "<backtick>"
NL == "\n"
SP == " "

\* the delimiter: three backticks
Fence == <<BT, BT, BT>>

\* the characters str.strip() removes
Whitespace == {SP, NL, "\t", "\r"}

Min(S) == CHOOSE x \in S : \A y \in S : x <= y
Max(S) == CHOOSE x \in S : \A y \in S : x >= y

\* s[a:b] for 0 <= a, b <= len(s)
Slice(s, a, b) == SubSeq(s, a + 1, b)

\* whether pat occurs in s at position k
OccursAt(s, pat, k) ==
    /\ k >= 0
    /\ k + Len(pat) <= Len(s)
    /\ SubSeq(s, k + 1, k + Len(pat)) = pat

\* s.find(pat, from): the lowest position >= from, or -1
Find(s, pat, from) ==
    LET hits == {k \in from..(Len(s) - Len(pat)) : OccursAt(s, pat, k)}
    IN  IF hits = {} THEN -1 ELSE Min(hits)

\* s.rfind(pat): the highest position, or -1
RFind(s, pat) ==
    LET hits == {k \in 0..(Len(s) - Len(pat)) : OccursAt(s, pat, k)}
    IN  IF hits = {} THEN -1 ELSE Max(hits)

\* pat in s
Contains(s, pat) == Find(s, pat, 0) # -1

StartsWith(s, pat) == OccursAt(s, pat, 0)

EndsWith(s, pat) == OccursAt(s, pat, Len(s) - Len(pat))

\* s.split(sep): the non-overlapping occurrences, from the left
RECURSIVE Split(_, _)
Split(s, sep) ==
    LET k == Find(s, sep, 0)
    IN  IF k = -1
        THEN <<s>>
        ELSE <<Slice(s, 0, k)>> \o Split(Slice(s, k + Len(sep), Len(s)), sep)

\* s.strip()
Strip(s) ==
    LET keep == {k \in 1..Len(s) : s[k] \notin Whitespace}
    IN  IF keep = {} THEN <<>> ELSE SubSeq(s, Min(keep), Max(keep))

\* sep.join(list)
RECURSIVE Join(_, _)
Join(list, sep) ==
    IF Len(list) = 0 THEN <<>>
    ELSE IF Len(list) = 1 THEN list[1]
    ELSE list[1] \o sep \o Join(Tail(list), sep)

\* s.replace(old, ""), old a single atom
RemoveAtom(s, old) == SelectSeq(s, LAMBDA c : c # old)

\* the concatenation of a list of strings
RECURSIVE Concat(_)
Concat(list) == IF Len(list) = 0 THEN <<>> ELSE list[1] \o Concat(Tail(list))

-----------------------------------------------------------------------------
(* _strip_code_block                                                       *)

\* the result of a call: a value, or an exception that leaves the function
Returned(v) == [raised |-> FALSE, value |-> v]
RaisedError == [raised |-> TRUE, value |-> <<>>]

\* the content start once the language hint is skipped (lines 83-84)
SkipLanguageHint(t, start) ==
    IF t[start + 1] # NL THEN Find(t, <<NL>>, start) + 1 ELSE start

\* end > start (line 87)
ClosingFenceAfter(end, start) == end > start

StripCodeBlock(t) ==
    IF Contains(t, Fence)
    THEN LET first == Find(t, Fence, 0) + 3
         IN  IF first >= Len(t)
             THEN RaisedError    \* text[start]: IndexError
             ELSE LET start == SkipLanguageHint(t, first)
                      end   == RFind(t, Fence)
                  IN  IF ClosingFenceAfter(end, start)
                      THEN Returned(Strip(Slice(t, start, end)))
                      ELSE Returned(Strip(t))
    ELSE Returned(Strip(t))

-----------------------------------------------------------------------------
(* generate_readme_fallback                                                *)

GenerateReadmeFallback(b, chk, meta, rnd) ==
    LET checks_text == Join(chk, <<NL>>)
        att_text    == meta
    IN  <<"# Auto-generated README (Round", SP, ToString(rnd), ")", NL, NL,
          "**Project brief:**", SP>> \o b \o
        <<NL, NL, "**Attachments:**", NL>> \o att_text \o
        <<NL, NL, "**Checks to meet:**", NL>> \o checks_text \o
        <<NL, NL, "## Setup", NL,
          "1. Open", SP, BT, "index.html", BT, SP, "in a browser.", NL,
          "2. No build steps required.", NL, NL,
          "## Notes", NL,
          "This README was generated as a fallback because the LLM did not return an explicit README.",
          NL>>

-----------------------------------------------------------------------------
(* generate_app_code: the fallback response and the extraction             *)

\* the page between the fences of the fallback response (lines 172-178)
FallbackHtml(b) ==
    <<"<html>", NL,
      SP, SP, "<head><title>Fallback App</title></head>", NL,
      SP, SP, "<body>", NL,
      SP, SP, SP, SP, "<h1>Hello (fallback)</h1>", NL,
      SP, SP, SP, SP,
      "<p>This app was generated as a fallback because the Gemini API failed. Brief:",
      SP>> \o b \o
    <<"</p>", NL,
      SP, SP, "</body>", NL,
      "</html>">>

\* the text substituted when the call fails (lines 170-183)
FallbackText(b, chk, meta, rnd) ==
    <<NL>> \o Fence \o <<"html", NL>> \o FallbackHtml(b) \o <<NL>> \o Fence \o
    <<NL>> \o Fence \o <<"markdown", NL>> \o
    GenerateReadmeFallback(b, chk, meta, rnd) \o <<NL>> \o Fence \o <<NL>>

\* lines 187: the response has the two expected blocks
MinParts == 5
HasTwoBlocks(parts) == Len(parts) >= MinParts

\* a variant of ReadmeSegment: the last block of the response
ReadmeSegmentLast(parts) == parts[Len(parts) - 1]

\* parts[1] and parts[3] (indices of Python), lines 188-189
CodeSegment(parts) == parts[2]
ReadmeSegment(parts) == parts[4]

\* lines 186-198: the files, or the exception _strip_code_block raised
ExtractFiles(t, b, chk, meta, rnd) ==
    LET parts == Split(t, Fence)
    IN  IF HasTwoBlocks(parts)
        THEN LET code_part   == StripCodeBlock(Fence \o CodeSegment(parts) \o Fence)
                 readme_part == StripCodeBlock(Fence \o ReadmeSegment(parts) \o Fence)
             IN  [raised |-> code_part.raised \/ readme_part.raised,
                  index |-> code_part.value,
                  readme |-> readme_part.value,
                  fallbackDoc |-> FALSE]
        ELSE LET code_part == StripCodeBlock(t)
             IN  [raised |-> code_part.raised,
                  index |-> code_part.value,
                  readme |-> IF code_part.raised THEN <<>>
                             ELSE GenerateReadmeFallback(b, chk, meta, rnd),
                  fallbackDoc |-> ~code_part.raised]

-----------------------------------------------------------------------------
(* base64.b64decode (binascii.a2b_base64, not strict)                      *)

B64Alphabet ==
    <<"A", "B", "C", "D", "E", "F", "G", "H", "I", "J", "K", "L", "M",
      "N", "O", "P", "Q", "R", "S", "T", "U", "V", "W", "X", "Y", "Z",
      "a", "b", "c", "d", "e", "f", "g", "h", "i", "j", "k", "l", "m",
      "n", "o", "p", "q", "r", "s", "t", "u", "v", "w", "x", "y", "z",
      "0", "1", "2", "3", "4", "5", "6", "7", "8", "9", "+", "/">>

IsB64Char(c) == \E k \in 1..Len(B64Alphabet) : B64Alphabet[k] = c

\* the six bits a base64 character stands for
B64Val(c) == (CHOOSE k \in 1..Len(B64Alphabet) : B64Alphabet[k] = c) - 1

DecodeFailed == [ok |-> FALSE, bytes |-> <<>>]
Decoded(b) == [ok |-> TRUE, bytes |-> b]

\* the scan of a2b_base64: characters outside the alphabet are skipped, a
\* pad that completes a quad ends the scan, an incomplete quad at the end
\* of the input is an error
RECURSIVE A2B(_, _, _, _, _, _)
A2B(s, i, quad, left, pads, out) ==
    IF i > Len(s)
    THEN IF quad # 0 THEN DecodeFailed ELSE Decoded(out)
    ELSE LET c == s[i]
         IN  IF c = "="
             THEN IF quad >= 2 /\ quad + pads + 1 >= 4
                  THEN Decoded(out)
                  ELSE A2B(s, i + 1, quad, left,
                           IF quad >= 2 THEN pads + 1 ELSE pads, out)
             ELSE IF ~IsB64Char(c)
             THEN A2B(s, i + 1, quad, left, pads, out)
             ELSE LET v == B64Val(c)
                  IN  CASE quad = 0 -> A2B(s, i + 1, 1, v, 0, out)
                        [] quad = 1 ->
                             A2B(s, i + 1, 2, v % 16, 0,
                                 Append(out, (left * 4 + v \div 16) % 256))
                        [] quad = 2 ->
                             A2B(s, i + 1, 3, v % 4, 0,
                                 Append(out, (left * 16 + v \div 4) % 256))
                        [] OTHER ->
                             A2B(s, i + 1, 0, 0, 0,
                                 Append(out, (left * 64 + v) % 256))

B64Decode(s) == A2B(s, 1, 0, 0, 0, <<>>)

-----------------------------------------------------------------------------
(* decode_attachments                                                      *)

\* a value of a dict entry: a str, None, or no entry at all
Str(s) == [kind |-> "str", s |-> s]
None == [kind |-> "null", s |-> <<>>]
Missing == [kind |-> "missing", s |-> <<>>]

\* TMP_DIR / name, as str(path)
TmpDir == <<"/tmp/llm_attachments">>
PathOf(name) == TmpDir \o <<"/">> \o name

NoFile == [exists |-> FALSE, data |-> <<>>]
FileWith(data) == [exists |-> TRUE, data |-> data]

\* att.get("name") or "attachment" (line 27)
DefaultName == <<"attachment">>
NameOf(att) ==
    IF att.name.kind = "str" /\ att.name.s # <<>> THEN att.name.s
    ELSE DefaultName

\* att.get("url", "") (line 28)
UrlOf(att) == IF att.url.kind = "missing" THEN Str(<<>>) ELSE att.url

\* what opening and writing the file does: it succeeds, open() fails and
\* the file is as before, or write() fails after open() truncated the file
IoOutcomes == {"ok", "open_fails", "write_fails"}

\* a variant of WriteFile: the file opened for appending
WriteFileAppending(dir, path, data) ==
    [dir EXCEPT ![path] = FileWith(dir[path].data \o data)]

\* with open(path, "wb") as f: f.write(data) (lines 36-37)
WriteFile(dir, path, data) == [dir EXCEPT ![path] = FileWith(data)]

\* the record appended (lines 38-43)
MakeRecord(name, mime, data) ==
    [name |-> name, path |-> PathOf(name), mime |-> mime, size |-> Len(data)]

\* header.split(";")[0].replace("data:", "") (line 33)
MimeOf(header) == RemoveAtom(Split(header, <<";">>)[1], "data:")

\* one pass of the loop body (lines 27-45): whether an exception left the
\* function, the records appended (none or one), the files afterwards
DecodeOne(att, dir, outcome) ==
    LET name == NameOf(att)
        url  == UrlOf(att)
        skip == [raised |-> FALSE, recs |-> <<>>, fs |-> dir]
    IN  IF url.kind # "str"
        THEN [raised |-> TRUE, recs |-> <<>>, fs |-> dir]  \* None.startswith
        ELSE IF ~StartsWith(url.s, <<"data:">>) THEN skip
        ELSE LET comma == Find(url.s, <<",">>, 0)
             IN  IF comma = -1 THEN skip             \* ValueError, caught
                 ELSE LET header  == Slice(url.s, 0, comma)
                          b64data == Slice(url.s, comma + 1, Len(url.s))
                          mime    == MimeOf(header)
                          data    == B64Decode(b64data)
                          path    == PathOf(name)
                      IN  IF ~data.ok THEN skip      \* binascii.Error, caught
                          ELSE IF outcome = "open_fails" THEN skip
                          ELSE IF outcome = "write_fails"
                          THEN [skip EXCEPT !.fs = WriteFile(dir, path, <<>>)]
                          ELSE [raised |-> FALSE,
                                recs |-> <<MakeRecord(name, mime, data.bytes)>>,
                                fs |-> WriteFile(dir, path, data.bytes)]

\* the loop (lines 25-46) from input k on
RECURSIVE DecodeFrom(_, _, _, _, _)
DecodeFrom(atts, k, dir, outcomes, acc) ==
    IF k > Len(atts) THEN [raised |-> FALSE, saved |-> acc, fs |-> dir]
    ELSE LET r == DecodeOne(atts[k], dir, outcomes[k])
         IN  IF r.raised THEN [raised |-> TRUE, saved |-> <<>>, fs |-> r.fs]
             ELSE DecodeFrom(atts, k + 1, r.fs, outcomes, acc \o r.recs)

DecodeAttachments(atts, dir, outcomes) == DecodeFrom(atts, 1, dir, outcomes, <<>>)

-----------------------------------------------------------------------------
(* summarize_attachment_meta                                               *)

LowerCase ==
    <<"a", "b", "c", "d", "e", "f", "g", "h", "i", "j", "k", "l", "m",
      "n", "o", "p", "q", "r", "s", "t", "u", "v", "w", "x", "y", "z">>

\* the character of an ASCII byte; the files of the model hold newlines,
\* spaces, lower-case letters and the byte 255 only
Chr(b) ==
    IF b = 10 THEN NL
    ELSE IF b = 32 THEN SP
    ELSE IF b >= 97 /\ b <= 122 THEN LowerCase[b - 96]
    ELSE "?"

\* open(p, "r", encoding="utf-8", errors="ignore"): a byte that is no
\* UTF-8 (here: any byte above 127, none being part of a valid sequence)
\* is dropped
Utf8DecodeIgnore(bytes) ==
    LET valid == SelectSeq(bytes, LAMBDA b : b < 128)
    IN  [k \in 1..Len(valid) |-> Chr(valid[k])]

\* line 59
TextLike(nm, mime) ==
    \/ StartsWith(mime, <<"text">>)
    \/ EndsWith(nm, <<".md">>)
    \/ EndsWith(nm, <<".txt">>)
    \/ EndsWith(nm, <<".json">>)
    \/ EndsWith(nm, <<".csv">>)

\* the lines iterating over the open file yields
FileLines(content) ==
    LET parts == Split(content, <<NL>>)
    IN  IF parts[Len(parts)] = <<>> THEN SubSeq(parts, 1, Len(parts) - 1)
        ELSE parts

\* range(3), line 62
CsvPreviewLines == 3
\* f.read(1000), line 65
PreviewChars == 1000

\* lines 62-63; fewer lines than 3: next(f) raises StopIteration
CsvPreview(content) ==
    LET lines == FileLines(content)
    IN  IF Len(lines) < CsvPreviewLines THEN RaisedError
        ELSE Returned(Join([k \in 1..CsvPreviewLines |-> Strip(lines[k])], <<NL>>))

\* lines 65-66
TextPreview(content) ==
    Slice(content, 0, IF Len(content) < PreviewChars THEN Len(content)
                      ELSE PreviewChars)

EntryHead(s) == <<"-", SP>> \o s.name \o <<SP, "(">> \o s.mime \o <<"):", SP>>

PreviewEntry(s, preview) == EntryHead(s) \o <<"preview:", SP>> \o preview
SizeEntry(s) == EntryHead(s) \o <<ToString(s.size), SP, "bytes">>
ErrorEntry(s, msg) ==
    EntryHead(s) \o <<"(could not read preview:", SP>> \o msg \o <<")">>

\* str(e) of the FileNotFoundError open() raises
NoSuchFile(p) == <<"[Errno 2] No such file or directory:", SP, "'">> \o p \o <<"'">>

\* one pass of the loop body (lines 55-71)
SummaryEntry(s, dir) ==
    IF TextLike(s.name, s.mime)
    THEN IF ~dir[s.path].exists THEN ErrorEntry(s, NoSuchFile(s.path))
         ELSE LET content == Utf8DecodeIgnore(dir[s.path].data)
              IN  IF EndsWith(s.name, <<".csv">>)
                  THEN LET preview == CsvPreview(content)
                       IN  IF preview.raised THEN ErrorEntry(s, <<>>)
                           ELSE PreviewEntry(s, preview.value)
                  ELSE PreviewEntry(s, TextPreview(content))
    ELSE SizeEntry(s)

\* whether reading the preview of a record fails
ReadFails(s, dir) ==
    /\ TextLike(s.name, s.mime)
    /\ \/ ~dir[s.path].exists
       \/ /\ EndsWith(s.name, <<".csv">>)
          /\ CsvPreview(Utf8DecodeIgnore(dir[s.path].data)).raised

\* a variant of SummaryEntries: a record whose preview cannot be read is
\* skipped
SummaryEntriesSkippingUnreadable(recs, dir) ==
    LET readable == SelectSeq(recs, LAMBDA s : ~ReadFails(s, dir))
    IN  [k \in 1..Len(readable) |-> SummaryEntry(readable[k], dir)]

\* the list summaries (lines 53-71)
SummaryEntries(recs, dir) == [k \in 1..Len(recs) |-> SummaryEntry(recs[k], dir)]

\* line 72
SummarizeAttachmentMeta(recs, dir) == Join(SummaryEntries(recs, dir), <<NL>>)

-----------------------------------------------------------------------------
(* The inputs drawn.                                                       *)

SeqsUpTo(S, n) == UNION {[1..k -> S] : k \in 0..n}

NameTxt == <<"a", ".txt">>
NameCsv == <<"b", ".csv">>
NamePng == <<"img", ".png">>
NameNotes == <<"notes">>

\* data:text/plain;base64,YQ==  (the byte of the letter a)
UrlTextA == <<"data:", "text", "/plain", ";", "base64", ",", "Y", "Q", "=", "=">>
\* data:;base64,YmI=  (two bytes, bb; no mime type)
UrlBytesBB == <<"data:", ";", "base64", ",", "Y", "m", "I", "=">>
\* data:text/csv;base64,YQphCmEK  (three lines)
UrlCsv3 == <<"data:", "text", "/csv", ";", "base64", ",",
             "Y", "Q", "p", "h", "C", "m", "E", "K">>
\* data:image/png,Y!Q==  (no parameter; the ! is skipped by the decoder)
UrlJunk == <<"data:", "image", "/png", ",", "Y", "!", "Q", "=", "=">>
UrlHttp == <<"http://example.com/x.png">>
\* data:text/plain;base64  (no comma)
UrlNoComma == <<"data:", "text", "/plain", ";", "base64">>
\* data:image/png;base64,YQ  (incorrect padding)
UrlBadPadding == <<"data:", "image", "/png", ";", "base64", ",", "Y", "Q">>

Att(name, url) == [name |-> name, url |-> url]

\* the attachment inputs of the decoder's specification
DecodeInputs ==
    { Att(Str(NameTxt), Str(UrlTextA)),
      Att(Str(NameTxt), Str(UrlBytesBB)),
      Att(Str(NameCsv), Str(UrlCsv3)),
      Att(Missing, Str(UrlJunk)),
      Att(None, Str(UrlTextA)),
      Att(Str(<<>>), Str(UrlBytesBB)),
      Att(Str(NameTxt), Str(UrlHttp)),
      Att(Str(NameTxt), Str(UrlNoComma)),
      Att(Str(NameCsv), Str(UrlBadPadding)),
      Att(Str(NameCsv), Missing),
      Att(Str(NameTxt), None) }

\* the attachment inputs of the whole pipeline
PipelineInputs ==
    { Att(Str(NameTxt), Str(UrlTextA)),
      Att(Str(NameCsv), Str(UrlCsv3)),
      Att(Str(NameTxt), Str(UrlHttp)),
      Att(Str(NameTxt), None) }

AllPaths == {PathOf(n) : n \in {NameTxt, NameCsv, NamePng, NameNotes, DefaultName}}

\* the scratch directory: empty, or holding a file of an earlier call
EmptyDir == [p \in AllPaths |-> NoFile]
LeftoverDir == [EmptyDir EXCEPT ![PathOf(NameTxt)] = FileWith(<<122>>)]

\* more characters than one preview holds
LongContent == [k \in 1..(PreviewChars + 1) |-> 97]

\* the records and directories of the summarizer's specification
SummaryRecords ==
    { [name |-> NameTxt, path |-> PathOf(NameTxt), mime |-> <<"text", "/plain">>, size |-> 1],
      [name |-> NameCsv, path |-> PathOf(NameCsv), mime |-> <<"text", "/csv">>, size |-> 6],
      [name |-> NamePng, path |-> PathOf(NamePng), mime |-> <<"image", "/png">>, size |-> 3],
      [name |-> DefaultName, path |-> PathOf(DefaultName), mime |-> <<>>, size |-> 2],
      [name |-> NameNotes, path |-> PathOf(NameNotes), mime |-> <<"text", "/plain">>, size |-> 0] }

SummaryDirs ==
    { [EmptyDir EXCEPT ![PathOf(NameTxt)] = t, ![PathOf(NameCsv)] = c,
                       ![PathOf(NameNotes)] = FileWith(<<>>)] :
        t \in {NoFile, FileWith(<<97>>), FileWith(<<97, 10, 98, 32>>),
               FileWith(LongContent)},
        c \in {NoFile, FileWith(<<97, 10, 97, 10, 97, 10>>),
               FileWith(<<32, 97, 10, 255, 98, 10, 99, 10, 100>>),
               FileWith(<<97, 10, 97>>)} }

Briefs == { <<"app">>,
            <<"my", SP>> \o Fence \o <<"brief">> \o Fence \o <<SP, "x">> }

ChecksLists == { <<>>, << <<"must load">>, <<"must be responsive">> >> }

\* the pieces a drawn response is made of
Pieces == <<Fence, <<NL>>, <<"a">>, <<BT>>>>

\* every response of at most MaxPieces pieces
TextSet ==
    UNION { { Concat([k \in 1..n |-> Pieces[f[k]]]) : f \in [1..n -> 1..Len(Pieces)] } :
            n \in 0..MaxPieces }

\* a fenced block: the delimiter, a language tag or none, a newline, the
\* inner content, the delimiter
FencedBlock(tag, content) == Fence \o tag \o <<NL>> \o content \o Fence

BlockTags == {<<>>, <<"a">>}
BlockContents == {<<>>, <<"a">>, <<NL>>, <<"a", NL>>, <<NL, "a">>, <<"a", NL, "a">>}
BlockGaps == {<<>>, <<NL>>}

\* the responses of exactly two fenced blocks
TwoBlockTexts ==
    { FencedBlock(t1, c1) \o gap \o FencedBlock(t2, c2) :
        t1 \in BlockTags, t2 \in BlockTags, gap \in BlockGaps,
        c1 \in BlockContents, c2 \in BlockContents }

HtmlBlock == Fence \o <<"html", NL, "<p>hi</p>", NL>> \o Fence
DocBlock == Fence \o <<"markdown", NL, "# Doc", NL>> \o Fence

\* the responses the generator returns in the whole pipeline
Responses ==
    { <<>>,
      HtmlBlock \o <<NL>> \o DocBlock,
      HtmlBlock,
      Fence,
      Fence \o <<NL>> \o Fence \o <<"x">> \o Fence \o <<NL>> \o Fence,
      <<"Here:", NL>> \o HtmlBlock \o <<NL>> \o DocBlock \o <<NL>> \o
          Fence \o <<"css", NL, "p {}", NL>> \o Fence }

-----------------------------------------------------------------------------
(* The state machine: one call of generate_app_code.                       *)

NoFiles == [index |-> <<>>, readme |-> <<>>]

InitCommon ==
    /\ io = <<>>
    /\ usedFallbackDoc = FALSE
    /\ files = NoFiles
    /\ err = "none"

\* a call of generate_app_code
Init ==
    /\ InitCommon
    /\ pc = "start"
    /\ attachments \in SeqsUpTo(PipelineInputs, MaxAtt)
    /\ brief \in Briefs
    /\ checks \in ChecksLists
    /\ round_num \in {1, 2}
    /\ fs = EmptyDir
    /\ saved = <<>>
    /\ summaries = <<>>
    /\ attachments_meta = <<>>
    /\ text = <<>>
    /\ trace = <<>>

\* a call of decode_attachments
InitDecode ==
    /\ InitCommon
    /\ pc = "start"
    /\ attachments \in SeqsUpTo(DecodeInputs, MaxAtt)
    /\ brief = <<"app">>
    /\ checks = <<>>
    /\ round_num = 1
    /\ fs \in {EmptyDir, LeftoverDir}
    /\ saved = <<>>
    /\ summaries = <<>>
    /\ attachments_meta = <<>>
    /\ text = <<>>
    /\ trace = <<>>

\* a call of summarize_attachment_meta: the records of an earlier decoding;
\* the scratch directory is shared, so a file may since have been replaced
\* or removed
InitSummarize ==
    /\ InitCommon
    /\ pc = "decoded"
    /\ attachments = <<>>
    /\ brief = <<"app">>
    /\ checks = <<>>
    /\ round_num = 1
    /\ fs \in SummaryDirs
    /\ saved \in SeqsUpTo(SummaryRecords, MaxAtt)
    /\ summaries = <<>>
    /\ attachments_meta = <<>>
    /\ text = <<>>
    /\ trace = <<"decode">>

\* the extraction of a response the generator returned
InitExtract ==
    /\ InitCommon
    /\ pc = "generated"
    /\ attachments = <<>>
    /\ brief = <<"app">>
    /\ checks \in ChecksLists
    /\ round_num = 1
    /\ fs = EmptyDir
    /\ saved = <<>>
    /\ summaries = <<>>
    /\ attachments_meta = <<>>
    /\ text \in TextSet \cup TwoBlockTexts \cup Responses
    /\ trace = <<"decode", "summarize", "get_model", "generate_content">>

\* whether the loop body reaches open() for this input
ReachesOpen(att) ==
    /\ UrlOf(att).kind = "str"
    /\ StartsWith(UrlOf(att).s, <<"data:">>)
    /\ Contains(UrlOf(att).s, <<",">>)
    /\ LET u == UrlOf(att).s
       IN  B64Decode(Slice(u, Find(u, <<",">>, 0) + 1, Len(u))).ok

\* the outcomes of the file operations, one per input ("ok" where the
\* input never reaches open())
IoChoices(atts) ==
    { o \in [1..Len(atts) -> IoOutcomes] :
        \A k \in 1..Len(atts) : ~ReachesOpen(atts[k]) => o[k] = "ok" }

\* line 119: saved = decode_attachments(attachments or [])
Decode ==
    /\ pc = "start"
    /\ \E o \in IoChoices(attachments) :
         LET r == DecodeAttachments(attachments, fs, o)
         IN  /\ io' = o
             /\ fs' = r.fs
             /\ saved' = r.saved
             /\ pc' = IF r.raised THEN "raised" ELSE "decoded"
             /\ err' = IF r.raised THEN "AttributeError" ELSE "none"
    /\ trace' = Append(trace, "decode")
    /\ UNCHANGED <<attachments, brief, checks, round_num, summaries,
                   attachments_meta, text, files, usedFallbackDoc>>

\* line 120: attachments_meta = summarize_attachment_meta(saved)
Summarize ==
    /\ pc = "decoded"
    /\ summaries' = SummaryEntries(saved, fs)
    /\ attachments_meta' = SummarizeAttachmentMeta(saved, fs)
    /\ pc' = "summarized"
    /\ trace' = Append(trace, "summarize")
    /\ UNCHANGED <<attachments, brief, checks, round_num, fs, io, saved,
                   text, files, usedFallbackDoc, err>>

\* a variant of Generate: a failed call is tried again
GenerateRetrying ==
    /\ pc = "summarized"
    /\ \/ /\ \E t \in Responses : text' = t
          /\ trace' = trace \o <<"get_model", "generate_content">>
          /\ pc' = "generated"
       \/ /\ text' = text
          /\ trace' = trace \o <<"get_model", "generate_content">>
          /\ pc' = "summarized"
    /\ UNCHANGED <<attachments, brief, checks, round_num, fs, io, saved,
                   summaries, attachments_meta, files, usedFallbackDoc, err>>

\* lines 160-183: the call of the generator.  The prompt (lines 122-158)
\* only reaches the generator, whose answer is any text or an exception.
Generate ==
    /\ pc = "summarized"
    /\ \/ \E t \in Responses :
            /\ text' = t
            /\ trace' = trace \o <<"get_model", "generate_content">>
       \/ /\ text' = FallbackText(brief, checks, attachments_meta, round_num)
          /\ trace' = trace \o <<"get_model", "fallback">>
       \/ /\ text' = FallbackText(brief, checks, attachments_meta, round_num)
          /\ trace' = trace \o <<"get_model", "generate_content", "fallback">>
    /\ pc' = "generated"
    /\ UNCHANGED <<attachments, brief, checks, round_num, fs, io, saved,
                   summaries, attachments_meta, files, usedFallbackDoc, err>>

\* lines 186-199: the extraction and the result
Extract ==
    /\ pc = "generated"
    /\ LET r == ExtractFiles(text, brief, checks, attachments_meta, round_num)
       IN  /\ pc' = IF r.raised THEN "raised" ELSE "done"
           /\ err' = IF r.raised THEN "IndexError" ELSE "none"
           /\ files' = IF r.raised THEN NoFiles
                       ELSE [index |-> r.index, readme |-> r.readme]
           /\ usedFallbackDoc' = r.fallbackDoc
    /\ trace' = Append(trace, "extract")
    /\ UNCHANGED <<attachments, brief, checks, round_num, fs, io, saved,
                   summaries, attachments_meta, text>>

Next == Decode \/ Summarize \/ Generate \/ Extract

Spec == Init /\ [][Next]_vars

NextDecode == Decode
SpecDecode == InitDecode /\ [][NextDecode]_vars

NextSummarize == Summarize
SpecSummarize == InitSummarize /\ [][NextSummarize]_vars

NextExtract == Extract
SpecExtract == InitExtract /\ [][NextExtract]_vars

-----------------------------------------------------------------------------
(* The claims.                                                             *)

Extracted == Len(trace) > 0 /\ trace[Len(trace)] = "extract"

IsPrefix(a, b) == Len(a) <= Len(b) /\ SubSeq(b, 1, Len(a)) = a

Count(list, x) == Cardinality({k \in 1..Len(list) : list[k] = x})

\* C1: whatever the generator answers, the result of generate_app_code has
\* a non-empty files["index.html"] and a non-empty files["README.md"].
C1_ResultFilesNonEmpty ==
    pc = "done" => files.index # <<>> /\ files.readme # <<>>

\* C2: the extraction of any response text completes without raising and
\* yields a string for the source and a string for the documentation.
C2_ExtractionNeverRaises ==
    Extracted => pc = "done" /\ err = "none"

\* C3: for a response of exactly two fenced blocks the source is the first
\* block's inner content, trimmed and without its language tag, and the
\* documentation is the second block's, likewise.
C3_TwoBlocksGiveInnerContents ==
    Extracted =>
        \A t1 \in BlockTags, t2 \in BlockTags, gap \in BlockGaps,
           c1 \in BlockContents, c2 \in BlockContents :
            text = FencedBlock(t1, c1) \o gap \o FencedBlock(t2, c2) =>
                /\ pc = "done"
                /\ files.index = Strip(c1)
                /\ files.readme = Strip(c2)

\* C4: for a response that splits into fewer than 5 segments the returned
\* documentation is non-empty and is generate_readme_fallback of the call's
\* inputs, and the returned source is _strip_code_block of the whole
\* response.
C4_FewerThanTwoBlocksFallBack ==
    (Extracted /\ Len(Split(text, Fence)) < MinParts) =>
        /\ pc = "done"
        /\ files.readme # <<>>
        /\ files.readme =
               GenerateReadmeFallback(brief, checks, attachments_meta, round_num)
        /\ files.index = StripCodeBlock(text).value

\* C5: when the generator is unavailable or raises, generate_app_code
\* returns, files["index.html"] is the fallback page with the brief in full
\* and files["README.md"] is the generate_readme_fallback document of the
\* same inputs (compared up to surrounding whitespace).
C5_FailureGivesFallbackFiles ==
    (Extracted /\ Count(trace, "fallback") > 0) =>
        /\ pc = "done"
        /\ files.index = FallbackHtml(brief)
        /\ Strip(files.readme) =
               Strip(GenerateReadmeFallback(brief, checks, attachments_meta,
                                            round_num))

\* the payload of a data: URI and the bytes it decodes to
PayloadOf(u) == Slice(u, Find(u, <<",">>, 0) + 1, Len(u))
HeaderOf(u) == Slice(u, 0, Find(u, <<",">>, 0))
DecodedBytes(att) == B64Decode(PayloadOf(UrlOf(att).s)).bytes

\* the inputs that are data: URIs, decode and are written, in order
Successful(atts, outcomes) ==
    SelectSeq([k \in 1..Len(atts) |-> k],
              LAMBDA k : ReachesOpen(atts[k]) /\ outcomes[k] = "ok")

ExpectedRecord(att) ==
    [name |-> NameOf(att), path |-> PathOf(NameOf(att)),
     mime |-> MimeOf(HeaderOf(UrlOf(att).s)), size |-> Len(DecodedBytes(att))]

\* C6: decode_attachments returns without raising for every input list,
\* and returns exactly the records of the inputs that are data: URIs and
\* decode and write successfully, in order; a failing input is dropped and
\* the later inputs are still processed.
C6_DecodeDropsFailuresOnly ==
    pc # "start" =>
        /\ pc = "decoded"
        /\ err = "none"
        /\ LET ok == Successful(attachments, io)
           IN  saved = [k \in 1..Len(ok) |-> ExpectedRecord(attachments[ok[k]])]

\* what the last of the inputs 1..k that opened path p left there
RECURSIVE LastWrite(_, _, _, _)
LastWrite(atts, outcomes, p, k) ==
    IF k = 0 THEN NoFile
    ELSE IF /\ ReachesOpen(atts[k])
            /\ PathOf(NameOf(atts[k])) = p
            /\ outcomes[k] # "open_fails"
         THEN IF outcomes[k] = "ok" THEN FileWith(DecodedBytes(atts[k]))
              ELSE FileWith(<<>>)
         ELSE LastWrite(atts, outcomes, p, k - 1)

\* whether a later input than k has the path of input k
LaterSamePath(atts, k) ==
    \E j \in (k + 1)..Len(atts) :
        PathOf(NameOf(atts[j])) = PathOf(NameOf(atts[k]))

\* every input is a valid data: URI and every file operation succeeded
AllValidAndWritten ==
    \A k \in 1..Len(attachments) : ReachesOpen(attachments[k]) /\ io[k] = "ok"

\* C7 as stated: after decode_attachments has processed valid data: URI
\* inputs, every returned record has the size of the decoded bytes of its
\* own input and the file at its path holds exactly those bytes, also when
\* inputs share a name.
C7_EveryFileHoldsItsOwnInput ==
    (pc = "decoded" /\ AllValidAndWritten) =>
        /\ Len(saved) = Len(attachments)
        /\ \A i \in 1..Len(saved) :
             /\ saved[i].size = Len(DecodedBytes(attachments[i]))
             /\ fs[saved[i].path] = FileWith(DecodedBytes(attachments[i]))

\* C7 as amended: every returned record has the size of the decoded bytes
\* of its own input; the file at its path holds exactly those bytes when
\* no later input has the same path, and in every case holds what the last
\* input that opened that path left there.
C7_FileHoldsLastWriteToItsPath ==
    pc = "decoded" =>
        LET ok == Successful(attachments, io)
        IN  /\ Len(saved) = Len(ok)
            /\ \A i \in 1..Len(saved) :
                 /\ saved[i].size = Len(DecodedBytes(attachments[ok[i]]))
                 /\ saved[i].path = PathOf(NameOf(attachments[ok[i]]))
                 /\ ~LaterSamePath(attachments, ok[i]) =>
                        fs[saved[i].path] =
                            FileWith(DecodedBytes(attachments[ok[i]]))
                 /\ fs[saved[i].path] =
                        LastWrite(attachments, io, saved[i].path,
                                  Len(attachments))

\* two records share a path and the file holds the later one's bytes
C7_Witness ==
    /\ pc = "decoded"
    /\ \E i \in 1..Len(saved), j \in 1..Len(saved) :
         /\ i < j
         /\ saved[i].path = saved[j].path
         /\ saved[i].size # saved[j].size
         /\ Len(fs[saved[j].path].data) = saved[j].size

\* the number of lines of a text
NumLines(t) == IF t = <<>> THEN 0 ELSE Len(Split(t, <<NL>>))

\* C8 as stated: summarize_attachment_meta returns a text of exactly one
\* line per record.
C8_OneLinePerRecord ==
    pc = "summarized" => NumLines(attachments_meta) = Len(saved)

\* what follows the head of an entry
EntryRest(entry, s) == Slice(entry, Len(EntryHead(s)), Len(entry))

\* C8 as amended: summarize_attachment_meta never raises and returns the
\* entries of the records joined by newlines, exactly one entry per record
\* in input order: a preview entry for a text-like attachment (the first 3
\* lines of a .csv, each trimmed, otherwise the first 1000 characters at
\* most), a size entry for the others, an error entry when reading fails; a
\* preview that holds newlines makes its entry span several lines.
C8_OneEntryPerRecord ==
    pc = "summarized" =>
        /\ err = "none"
        /\ Len(summaries) = Len(saved)
        /\ attachments_meta = Join(summaries, <<NL>>)
        /\ \A i \in 1..Len(saved) :
             LET s    == saved[i]
                 rest == EntryRest(summaries[i], s)
                 content == Utf8DecodeIgnore(fs[s.path].data)
             IN  /\ StartsWith(summaries[i], EntryHead(s))
                 /\ ~TextLike(s.name, s.mime) =>
                        rest = <<ToString(s.size), SP, "bytes">>
                 /\ (TextLike(s.name, s.mime) /\ ReadFails(s, fs)) =>
                        StartsWith(rest, <<"(could not read preview:">>)
                 /\ (TextLike(s.name, s.mime) /\ ~ReadFails(s, fs)) =>
                        /\ StartsWith(rest, <<"preview:", SP>>)
                        /\ LET preview == Slice(rest, 2, Len(rest))
                           IN  IF EndsWith(s.name, <<".csv">>)
                               THEN /\ Len(Split(preview, <<NL>>)) = CsvPreviewLines
                                    /\ \A k \in 1..CsvPreviewLines :
                                         Split(preview, <<NL>>)[k] =
                                             Strip(Split(content, <<NL>>)[k])
                               ELSE /\ Len(preview) <= PreviewChars
                                    /\ IsPrefix(preview, content)
                                    /\ Len(content) <= PreviewChars =>
                                           preview = content

\* a summary of two records: a preview of several lines and an error entry
C8_Witness ==
    /\ pc = "summarized"
    /\ Len(saved) = 2
    /\ NumLines(attachments_meta) > Len(saved)
    /\ \E i \in 1..Len(saved) : ReadFails(saved[i], fs)
    /\ \E i \in 1..Len(saved) :
         /\ TextLike(saved[i].name, saved[i].mime)
         /\ ~ReadFails(saved[i], fs)

\* the orders of events of a complete call
CompleteTraces ==
    { <<"decode", "summarize", "get_model", "generate_content", "extract">>,
      <<"decode", "summarize", "get_model", "generate_content", "fallback", "extract">>,
      <<"decode", "summarize", "get_model", "fallback", "extract">> }

\* C9: the events of a call occur in the order decode, summarize,
\* generator call, extraction; the generator is called at most once; its
\* failure is replaced once by the fallback response; the extraction runs
\* once, on the response or on the fallback response.
C9_FixedOrderNoRetry ==
    /\ \E full \in CompleteTraces : IsPrefix(trace, full)
    /\ Count(trace, "generate_content") <= 1
    /\ Count(trace, "fallback") <= 1
    /\ Count(trace, "extract") <= 1
    /\ Extracted => trace \in CompleteTraces
    /\ pc \in {"generated", "done"} =>
         IF Count(trace, "fallback") = 1
         THEN text = FallbackText(brief, checks, attachments_meta, round_num)
         ELSE text \in Responses
    /\ pc = "done" => Extracted

\* a call whose generator failed and whose extraction ran on the fallback
C9_Witness ==
    /\ pc = "done"
    /\ trace = <<"decode", "summarize", "get_model", "generate_content",
                 "fallback", "extract">>
    /\ Len(saved) > 0

\* what surrounds the two blocks in the other responses compared
OtherSegments == {<<>>, <<"a">>, <<NL>>, <<BT>>, <<"a", NL, BT>>}
OtherTails == {<<>>, <<NL, "a">>, Fence \o <<"a", NL>> \o Fence, Fence \o <<BT>>}

\* the responses built around a first and a second block
ResponsesAround(seg1, seg3) ==
    { before \o Fence \o seg1 \o Fence \o between \o Fence \o seg3 \o Fence \o after :
        before \in OtherSegments, between \in OtherSegments, after \in OtherTails }

\* C10: for a response of 5 segments or more the source depends on segment
\* 1 only and the documentation on segment 3 only: every other response
\* with the same segments 1 and 3 gives the same files, whatever the brief
\* and the checks, and generate_readme_fallback is not used.
C10_OnlySegmentsOneAndThree ==
    (Extracted /\ HasTwoBlocks(Split(text, Fence))) =>
        LET parts == Split(text, Fence)
        IN  /\ pc = "done"
            /\ ~usedFallbackDoc
            /\ \A other \in ResponsesAround(parts[2], parts[4]), b \in Briefs :
                 LET oparts == Split(other, Fence)
                     r == ExtractFiles(other, b, <<>>, <<"x">>, 2)
                 IN  (/\ HasTwoBlocks(oparts)
                      /\ oparts[2] = parts[2]
                      /\ oparts[4] = parts[4]) =>
                         /\ ~r.raised
                         /\ r.index = files.index
                         /\ r.readme = files.readme

\* a response with text before the first block and blocks after the second
C10_Witness ==
    /\ pc = "done"
    /\ Len(Split(text, Fence)) >= 7
    /\ Split(text, Fence)[1] # <<>>
    /\ files.index # <<>>

====
